---- MODULE Spec2Model ----
(***************************************************************************)
(* The BERT pretraining notebook (pretrain/PyTorch/notebooks/               *)
(* BERT_Pretrain.ipynb) as a state machine.  The notebook is a sequence of  *)
(* cells run top to bottom against an Azure ML workspace: the compute       *)
(* cluster cell (lookup, create, wait), the estimator cell (MPI             *)
(* configuration, PyTorch estimator, interpreter path) and the submit cell. *)
(* pc is the statement the kernel executes next.  The workspace (the pools  *)
(* it holds, the runs it records) is the remote state the SDK calls act     *)
(* on.  Where the notebook does not look at what a call reports (an         *)
(* exception's reason, the provisioning state after the wait), every        *)
(* outcome of the call is a possible step.                                  *)
(***************************************************************************)
EXTENDS Integers, Sequences, FiniteSets, TLC

\* ---------------------------------------------------------------- bounds
\* how many times the notebook is run top to bottom
MaxExecutions == 2
\* node_count values 1..MaxNodeCount are tried besides the notebook's own 16
MaxNodeCount == 2

\* ------------------------------------------------------ notebook literals
gpu_cluster_name == "pretraincluster"
experiment_name == "BERT-pretraining"
image_name == "mcr.microsoft.com/azureml/bert:pretrain-openmpi3.1.2-cuda10.0-cudnn7-ubuntu16.04"
project_folder == ".."
interpreter_path == "/opt/miniconda/envs/amlbert/bin/python"
\* AmlCompute.provisioning_configuration(vm_size=..., min_nodes=0, max_nodes=16)
compute_config == [vm_size |-> "Standard_NC24s_v3", min_nodes |-> 0, max_nodes |-> 16]
\* node_count=16 in the PyTorch(...) call, and the values a user edits it to
NodeCounts == (1..MaxNodeCount) \cup {16}
\* mpi.process_count_per_node = 4, or 8 (the commented alternative)
ProcessCounts == {4, 8}
\* ds.path('bert_data/').as_mount() of the datastore registered in the notebook
DataMount == [datastore |-> "BERT_Preprocessed_Data", path |-> "bert_data/", mode |-> "mount"]
script_params ==
    [config_file |-> "bert-large.json", path |-> DataMount, max_seq_length |-> 512,
     max_predictions_per_seq |-> 80, train_batch_size |-> 64, seed |-> 42,
     accumulate_gradients |-> "True", gradient_accumulation_steps |-> 16,
     fp16 |-> "True", loss_scale |-> 0]

\* ------------------------------------------------------- workspace state
PoolNames == {gpu_cluster_name, "othercluster"}
NoPool == [vm_size |-> "", min_nodes |-> 0, max_nodes |-> 0, state |-> "Absent"]
\* pools another user or an earlier session may have left in the workspace
ExistingPools ==
    {[vm_size |-> "Standard_NC24s_v3", min_nodes |-> 0, max_nodes |-> 16, state |-> "Succeeded"],
     [vm_size |-> "Standard_ND40_v2", min_nodes |-> 0, max_nodes |-> 8, state |-> "Succeeded"],
     [vm_size |-> "Standard_NC24s_v3", min_nodes |-> 1, max_nodes |-> 2, state |-> "Succeeded"]}

VARIABLES
    pc,                  \* next statement of the notebook
    execution,           \* which top-to-bottom run of the notebook this is
    cell,                \* the literals of the estimator cell as the user left them
    pools,               \* workspace: pool name -> pool
    gpu_compute_target,  \* kernel variable: name of the pool, "None" while unbound
    mpi,                 \* kernel variable: the MpiConfiguration
    estimators,          \* heap of the PyTorch estimator objects built so far
    args,                \* the arguments each estimator object was constructed with
    estimator,           \* kernel variable: index into estimators, 0 while unbound
    runs,                \* workspace: the runs recorded, in submission order
    run,                 \* kernel variable: index into runs, 0 while unbound
    error,               \* the exception that ended the execution, "none" otherwise
    calls                \* per execution, what the compute cluster cell did

vars == <<pc, execution, cell, pools, gpu_compute_target, mpi, estimators, args,
          estimator, runs, run, error, calls>>

Cells == [node_count : NodeCounts, process_count_per_node : ProcessCounts]

Exists(name) == pools[name].state # "Absent"
Ready(name) == pools[name].state = "Succeeded"

NewCall(outcome) ==
    [lookup |-> outcome, creates |-> 0, before |-> pools, after |-> pools,
     returned |-> FALSE, failed |-> FALSE]

Init ==
    /\ pc = "lookup"
    /\ execution = 1
    /\ cell \in Cells
    /\ pools \in [PoolNames -> ExistingPools \cup {NoPool}]
    /\ pools["othercluster"].vm_size = "Standard_ND40_v2"
    /\ gpu_compute_target = "None"
    /\ mpi = [process_count_per_node |-> 0]
    /\ estimators = <<>>
    /\ args = <<>>
    /\ estimator = 0
    /\ runs = <<>>
    /\ run = 0
    /\ error = "none"
    /\ calls = <<>>

\* ------------------------------------------------- compute cluster cell
\* LookupFound as it would be if the found branch pushed the requested sizing
\* onto the pool it found
LookupFound_Resizes ==
    /\ pc = "lookup"
    /\ Exists(gpu_cluster_name)
    /\ pools' = [pools EXCEPT ![gpu_cluster_name].vm_size = compute_config.vm_size,
                              ![gpu_cluster_name].min_nodes = compute_config.min_nodes,
                              ![gpu_cluster_name].max_nodes = compute_config.max_nodes]
    /\ gpu_compute_target' = gpu_cluster_name
    /\ calls' = Append(calls, [NewCall("Found") EXCEPT !.returned = TRUE, !.after = pools'])
    /\ pc' = "mpi"
    /\ UNCHANGED <<execution, cell, mpi, estimators, args, estimator, runs, run, error>>

\* try: gpu_compute_target = ComputeTarget(workspace=ws, name=gpu_cluster_name)
\*      print('Found existing compute target.')
LookupFound ==
    /\ pc = "lookup"
    /\ Exists(gpu_cluster_name)
    /\ gpu_compute_target' = gpu_cluster_name
    /\ calls' = Append(calls, [NewCall("Found") EXCEPT !.returned = TRUE])
    /\ pc' = "mpi"
    /\ UNCHANGED <<execution, cell, pools, mpi, estimators, args, estimator, runs, run, error>>

\* the constructor raises ComputeTargetException because no pool has the name;
\* except ComputeTargetException: print('Creating a new compute target...')
LookupNotFound ==
    /\ pc = "lookup"
    /\ ~Exists(gpu_cluster_name)
    /\ calls' = Append(calls, NewCall("NotFound"))
    /\ pc' = "create"
    /\ UNCHANGED <<execution, cell, pools, gpu_compute_target, mpi, estimators, args,
                   estimator, runs, run, error>>

\* the constructor raises ComputeTargetException for another reason (a bad
\* response from the resource provider): the except clause tests the exception's
\* class only, so this lands in the same handler
LookupBadResponse ==
    /\ pc = "lookup"
    /\ calls' = Append(calls, NewCall("BadResponse"))
    /\ pc' = "create"
    /\ UNCHANGED <<execution, cell, pools, gpu_compute_target, mpi, estimators, args,
                   estimator, runs, run, error>>

\* the constructor raises an exception of another class (authentication,
\* network): no handler, the cell ends with the exception
LookupOtherError ==
    /\ pc = "lookup"
    /\ calls' = Append(calls, NewCall("OtherError"))
    /\ error' = "OtherError"
    /\ pc' = "error"
    /\ UNCHANGED <<execution, cell, pools, gpu_compute_target, mpi, estimators, args,
                   estimator, runs, run>>

\* one more create request counted in this execution's record
Requested(c) == [c EXCEPT ![execution].creates = @ + 1]

\* gpu_compute_target = ComputeTarget.create(ws, gpu_cluster_name, compute_config)
\* the service accepts the request: the pool is now being provisioned with the
\* requested sizing (for a name that is taken, the request replaces the sizing)
CreateAccepted ==
    /\ pc = "create"
    /\ pools' = [pools EXCEPT ![gpu_cluster_name] =
                    [vm_size |-> compute_config.vm_size,
                     min_nodes |-> compute_config.min_nodes,
                     max_nodes |-> compute_config.max_nodes,
                     state |-> "Creating"]]
    /\ gpu_compute_target' = gpu_cluster_name
    /\ calls' = Requested(calls)
    /\ pc' = "wait"
    /\ UNCHANGED <<execution, cell, mpi, estimators, args, estimator, runs, run, error>>

\* ComputeTarget.create raises (quota, invalid request, name taken): the handler
\* has no try of its own, the exception leaves the cell
CreateRaises ==
    /\ pc = "create"
    /\ calls' = [Requested(calls) EXCEPT ![execution].failed = TRUE]
    /\ error' = "ComputeTargetException"
    /\ pc' = "error"
    /\ UNCHANGED <<execution, cell, pools, gpu_compute_target, mpi, estimators, args,
                   estimator, runs, run>>

\* gpu_compute_target.wait_for_completion(show_output=True): provisioning
\* succeeded and the call returns
WaitSucceeded ==
    /\ pc = "wait"
    /\ pools' = [pools EXCEPT ![gpu_cluster_name].state = "Succeeded"]
    /\ calls' = [calls EXCEPT ![execution].returned = TRUE, ![execution].after = pools']
    /\ pc' = "mpi"
    /\ UNCHANGED <<execution, cell, gpu_compute_target, mpi, estimators, args, estimator,
                   runs, run, error>>

\* the wait ends without the pool being ready (provisioning ended in Failed, or
\* the wait budget elapsed with the pool still Creating) and the call returns
\* after printing; the notebook reads neither a result nor the pool's state
WaitReturnsNotReady ==
    /\ pc = "wait"
    /\ \E s \in {"Failed", "Creating"} :
           pools' = [pools EXCEPT ![gpu_cluster_name].state = s]
    /\ calls' = [calls EXCEPT ![execution].returned = TRUE, ![execution].failed = TRUE,
                              ![execution].after = pools']
    /\ pc' = "mpi"
    /\ UNCHANGED <<execution, cell, gpu_compute_target, mpi, estimators, args, estimator,
                   runs, run, error>>

\* the wait raises: the exception leaves the cell
WaitRaises ==
    /\ pc = "wait"
    /\ \E s \in {"Failed", "Creating"} :
           pools' = [pools EXCEPT ![gpu_cluster_name].state = s]
    /\ calls' = [calls EXCEPT ![execution].failed = TRUE]
    /\ error' = "ComputeTargetException"
    /\ pc' = "error"
    /\ UNCHANGED <<execution, cell, gpu_compute_target, mpi, estimators, args, estimator,
                   runs, run>>

\* ------------------------------------------------------- estimator cell
\* mpi = MpiConfiguration(); mpi.process_count_per_node = 4
MpiConfiguration ==
    /\ pc = "mpi"
    /\ mpi' = [process_count_per_node |-> cell.process_count_per_node]
    /\ pc' = "build"
    /\ UNCHANGED <<execution, cell, pools, gpu_compute_target, estimators, args, estimator,
                   runs, run, error, calls>>

Min(a, b) == IF a <= b THEN a ELSE b

\* PyTorch as it would be if the node count were clamped to the target pool's
\* max_nodes
PyTorch_Clamped(compute_target, node_count, distributed_training) ==
    [source_directory |-> project_folder,
     compute_target |-> compute_target,
     node_count |-> Min(node_count, pools[compute_target].max_nodes),
     process_count_per_node |-> distributed_training.process_count_per_node,
     use_gpu |-> TRUE,
     use_docker |-> TRUE,
     custom_docker_image |-> image_name,
     user_managed |-> TRUE,
     script_params |-> script_params,
     entry_script |-> "train.py",
     inputs |-> <<DataMount>>,
     interpreter_path |-> "python"]

\* the estimator object the PyTorch(...) constructor returns for its arguments
PyTorch(compute_target, node_count, distributed_training) ==
    [source_directory |-> project_folder,
     compute_target |-> compute_target,
     node_count |-> node_count,
     process_count_per_node |-> distributed_training.process_count_per_node,
     use_gpu |-> TRUE,
     use_docker |-> TRUE,
     custom_docker_image |-> image_name,
     user_managed |-> TRUE,
     script_params |-> script_params,
     entry_script |-> "train.py",
     inputs |-> <<DataMount>>,
     interpreter_path |-> "python"]

\* the arguments of the PyTorch(...) call that vary between executions
Arguments ==
    [compute_target |-> gpu_compute_target, node_count |-> cell.node_count,
     process_count_per_node |-> mpi.process_count_per_node]

\* BuildEstimator as it would be if the cell reconfigured the estimator object
\* it already holds instead of constructing a new one
BuildEstimator_InPlace ==
    /\ pc = "build"
    /\ IF estimator = 0
       THEN /\ estimators' = Append(estimators, PyTorch(gpu_compute_target, cell.node_count, mpi))
            /\ args' = Append(args, Arguments)
            /\ estimator' = Len(estimators) + 1
       ELSE /\ estimators' = [estimators EXCEPT ![estimator] =
                                  PyTorch(gpu_compute_target, cell.node_count, mpi)]
            /\ args' = [args EXCEPT ![estimator] = Arguments]
            /\ estimator' = estimator
    /\ pc' = "set_interp"
    /\ UNCHANGED <<execution, cell, pools, gpu_compute_target, mpi, runs, run, error, calls>>

\* estimator = PyTorch(source_directory=project_folder, ...): a new object, the
\* name estimator is rebound to it
BuildEstimator ==
    /\ pc = "build"
    /\ estimators' = Append(estimators, PyTorch(gpu_compute_target, cell.node_count, mpi))
    /\ args' = Append(args, Arguments)
    /\ estimator' = Len(estimators) + 1
    /\ pc' = "set_interp"
    /\ UNCHANGED <<execution, cell, pools, gpu_compute_target, mpi, runs, run, error, calls>>

\* estimator._estimator_config.environment.python.interpreter_path = '/opt/...'
SetInterpreterPath ==
    /\ pc = "set_interp"
    /\ estimators' = [estimators EXCEPT ![estimator].interpreter_path = interpreter_path]
    /\ UNCHANGED args
    /\ pc' = "submit"
    /\ UNCHANGED <<execution, cell, pools, gpu_compute_target, mpi, estimator, runs,
                   run, error, calls>>

\* ---------------------------------------------------------- submit cell
\* run = experiment.submit(estimator): the workspace records a run of the
\* experiment for the estimator as it is now
Submit ==
    /\ pc = "submit"
    /\ runs' = Append(runs, [experiment |-> experiment_name,
                             estimator |-> estimator,
                             snapshot |-> estimators[estimator],
                             execution |-> execution,
                             pool_state |-> pools[estimators[estimator].compute_target].state])
    /\ run' = Len(runs) + 1
    /\ pc' = "done"
    /\ UNCHANGED <<execution, cell, pools, gpu_compute_target, mpi, estimators, args,
                   estimator, error, calls>>

\* the user runs the notebook again from the top (after it finished, or after an
\* exception stopped it), possibly with edited literals; the kernel keeps its
\* variables and the workspace its pools and runs
RunAgain ==
    /\ pc \in {"done", "error"}
    /\ execution < MaxExecutions
    /\ execution' = execution + 1
    /\ cell' \in Cells
    /\ error' = "none"
    /\ pc' = "lookup"
    /\ UNCHANGED <<pools, gpu_compute_target, mpi, estimators, args, estimator, runs, run, calls>>

Next ==
    \/ LookupFound
    \/ LookupNotFound
    \/ LookupBadResponse
    \/ LookupOtherError
    \/ CreateAccepted
    \/ CreateRaises
    \/ WaitSucceeded
    \/ WaitReturnsNotReady
    \/ WaitRaises
    \/ MpiConfiguration
    \/ BuildEstimator
    \/ SetInterpreterPath
    \/ Submit
    \/ RunAgain

Spec == Init /\ [][Next]_vars

\* ================================================================ claims
\* the record of the compute cluster cell in the current execution, once the
\* lookup has been made
InCall == Len(calls) = execution
Call == calls[execution]
Sizing(p) == [vm_size |-> p.vm_size, min_nodes |-> p.min_nodes, max_nodes |-> p.max_nodes]
AfterClusterCell == pc \in {"mpi", "build", "set_interp", "submit", "done"}

\* C1: two executions of the compute cluster cell in a row that both return a
\* handle return the same pool, and the two together issue at most one create
\* request, none when the pool existed before the first.
C1_IdempotentPoolResolution ==
    \A i \in 1..(Len(calls) - 1) :
        (calls[i].returned /\ calls[i + 1].returned) =>
            /\ Sizing(calls[i].after[gpu_cluster_name])
                   = Sizing(calls[i + 1].after[gpu_cluster_name])
            /\ calls[i].creates + calls[i + 1].creates <= 1
            /\ (calls[i].before[gpu_cluster_name].state # "Absent"
                    => calls[i].creates + calls[i + 1].creates = 0)

\* C2: a lookup that fails for any reason other than "not found" ends the cell
\* with that failure, issues no create request and leaves the workspace's pools
\* as they were.
C2_OnlyNotFoundFallsThrough ==
    (InCall /\ Call.lookup \in {"BadResponse", "OtherError"}) =>
        /\ pc = "error"
        /\ error # "none"
        /\ Call.creates = 0
        /\ pools = Call.before

Configured(i) == ~(i = estimator /\ pc = "set_interp")
Submitted(i) == \E r \in DOMAIN runs : runs[r].estimator = i

C8_ProvisioningFailureIsFatal ==
    (InCall /\ Call.lookup = "NotFound" /\ Call.failed) =>
        /\ pc = "error"
        /\ error # "none"
        /\ Call.creates = 1
        /\ \A r \in DOMAIN runs : runs[r].execution # execution

\* C9: when the lookup finds the pool, the execution issues no create request
\* and the workspace's pools, the found pool's sizing included, stay as they
\* were before the lookup.
C9_FoundPoolReusedAsIs ==
    (InCall /\ Call.lookup = "Found") =>
        /\ Call.creates = 0
        /\ pools = Call.before
        /\ gpu_compute_target = gpu_cluster_name
        /\ pc # "error"

\* a pool whose sizing differs from the requested one was found and a run was
\* submitted to it
C9_Witness ==
    /\ InCall
    /\ Call.lookup = "Found"
    /\ Sizing(pools[gpu_cluster_name]) # compute_config
    /\ pc = "done"

\* C10: on the not-found path the cell returns only once the pool is ready: the
\* create request precedes the wait, and no estimator is built against the pool
\* and no run submitted to it before the pool is ready.
C10_ReadyBeforeUse ==
    (InCall /\ Call.lookup = "NotFound") =>
        /\ pc = "wait" => Call.creates = 1
        /\ Call.returned => Ready(gpu_cluster_name)
        /\ AfterClusterCell => Ready(gpu_cluster_name)
        /\ \A r \in DOMAIN runs :
               runs[r].execution = execution => runs[r].pool_state = "Succeeded"

====
